---- MODULE Spec2Model ----
(***************************************************************************)
(* Health Tracker (project.py): an ordered collection of Entry records and *)
(* the four operations on it: add_entry, moving_average, summarize_week    *)
(* and export_csv.                                                         *)
(*                                                                         *)
(* Text is a sequence of one-character strings, so that strip, lower,      *)
(* strptime, sorted and the csv writer work on characters as the code      *)
(* does.  A float is a whole number of tenths (705 is 70.5) and the        *)
(* quotient of a division is an exact fraction [num, den] in lowest terms: *)
(* rounding of binary floating point is not modelled.                      *)
(***************************************************************************)
EXTENDS Integers, Naturals, Sequences, FiniteSets, TLC

VARIABLES entries, created, call, result, file

vars == <<entries, created, call, result, file>>

\* ------------------------------------------------------------------ bounds
\* entries the caller adds in a session
MaxEntries == 2
\* length of the collections the two statistics are applied to
MaxLen == 3
\* largest window asked for
MaxWindow == 3

\* --------------------------------------------------------------- characters
Digits == {"0", "1", "2", "3", "4", "5", "6", "7", "8", "9"}

DigitVal(c) ==
    CASE c = "0" -> 0 [] c = "1" -> 1 [] c = "2" -> 2 [] c = "3" -> 3
      [] c = "4" -> 4 [] c = "5" -> 5 [] c = "6" -> 6 [] c = "7" -> 7
      [] c = "8" -> 8 [] c = "9" -> 9

DigitChar(n) ==
    CASE n = 0 -> "0" [] n = 1 -> "1" [] n = 2 -> "2" [] n = 3 -> "3"
      [] n = 4 -> "4" [] n = 5 -> "5" [] n = 6 -> "6" [] n = 7 -> "7"
      [] n = 8 -> "8" [] n = 9 -> "9"

\* Code point of a character: the order Python compares str by.
Ord(c) ==
    CASE c = "\n" -> 10 [] c = "\r" -> 13 [] c = " " -> 32 [] c = "\"" -> 34
      [] c = "," -> 44 [] c = "-" -> 45 [] c = "." -> 46
      [] c \in Digits -> 48 + DigitVal(c)
      [] c = "B" -> 66 [] c = "W" -> 87
      [] c = "a" -> 97 [] c = "b" -> 98 [] c = "c" -> 99 [] c = "d" -> 100
      [] c = "e" -> 101 [] c = "i" -> 105 [] c = "l" -> 108 [] c = "m" -> 109
      [] c = "o" -> 111 [] c = "r" -> 114 [] c = "t" -> 116 [] c = "u" -> 117
      [] c = "v" -> 118 [] c = "w" -> 119

IsSpace(c) == c \in {" ", "\n", "\r"}

\* str.lower on one character
LowerChar(c) == CASE c = "B" -> "b" [] c = "W" -> "w" [] OTHER -> c

\* a < b for str: lexicographic by code point, a proper prefix is smaller
RECURSIVE StrLess(_, _)
StrLess(a, b) ==
    IF b = <<>> THEN FALSE
    ELSE IF a = <<>> THEN TRUE
    ELSE IF Ord(Head(a)) # Ord(Head(b)) THEN Ord(Head(a)) < Ord(Head(b))
    ELSE StrLess(Tail(a), Tail(b))

\* str.strip(): drop leading and trailing whitespace
RECURSIVE LStrip(_)
LStrip(s) == IF s # <<>> /\ IsSpace(Head(s)) THEN LStrip(Tail(s)) ELSE s

RECURSIVE RStrip(_)
RStrip(s) ==
    IF s # <<>> /\ IsSpace(s[Len(s)]) THEN RStrip(SubSeq(s, 1, Len(s) - 1)) ELSE s

Strip(s) == RStrip(LStrip(s))

Lower(s) == [i \in 1..Len(s) |-> LowerChar(s[i])]

\* a normalisation that trims but keeps the case
NormalizeMetric_NoLower(metric) == Strip(metric)

\* metric.strip().lower()
NormalizeMetric(metric) == Lower(Strip(metric))

\* ------------------------------------------------------------------- dates
\* datetime.strptime(date, "%Y-%m-%d"): the format is the regular expression
\*   (\d\d\d\d)-(1[0-2]|0[1-9]|[1-9])-(3[01]|[12]\d|0[1-9]|[1-9]| [1-9])
\* matched at the start of the string; text left over is an error, and so is
\* a day the month does not have.
IsDigitAt(s, i) == i <= Len(s) /\ s[i] \in Digits

IsCharAt(s, i, c) == i <= Len(s) /\ s[i] = c

Nonzero(s, i) == IsDigitAt(s, i) /\ s[i] # "0"

\* length of the month group matched at position i, 0 when none matches
MonthLen(s, i) ==
    IF IsCharAt(s, i, "1") /\ IsDigitAt(s, i + 1) /\ s[i + 1] \in {"0", "1", "2"}
         /\ IsCharAt(s, i + 2, "-") THEN 2
    ELSE IF IsCharAt(s, i, "0") /\ Nonzero(s, i + 1) /\ IsCharAt(s, i + 2, "-") THEN 2
    ELSE IF Nonzero(s, i) /\ IsCharAt(s, i + 1, "-") THEN 1
    ELSE 0

\* length of the day group matched at position i, 0 when none matches
DayLen(s, i) ==
    IF IsCharAt(s, i, "3") /\ IsDigitAt(s, i + 1) /\ s[i + 1] \in {"0", "1"} THEN 2
    ELSE IF IsDigitAt(s, i) /\ s[i] \in {"1", "2"} /\ IsDigitAt(s, i + 1) THEN 2
    ELSE IF IsCharAt(s, i, "0") /\ Nonzero(s, i + 1) THEN 2
    ELSE IF Nonzero(s, i) THEN 1
    ELSE IF IsCharAt(s, i, " ") /\ Nonzero(s, i + 1) THEN 2
    ELSE 0

\* int() of a run of digits, a leading blank skipped
RECURSIVE ToInt(_)
ToInt(s) ==
    IF s = <<>> THEN 0
    ELSE IF s[Len(s)] = " " THEN 0
    ELSE ToInt(SubSeq(s, 1, Len(s) - 1)) * 10 + DigitVal(s[Len(s)])

IsLeap(y) == (y % 4 = 0 /\ y % 100 # 0) \/ y % 400 = 0

DaysInMonth(y, m) ==
    IF m = 2 THEN (IF IsLeap(y) THEN 29 ELSE 28)
    ELSE IF m \in {4, 6, 9, 11} THEN 30 ELSE 31

RECURSIVE DaysBeforeMonth(_, _)
DaysBeforeMonth(y, m) ==
    IF m = 1 THEN 0 ELSE DaysBeforeMonth(y, m - 1) + DaysInMonth(y, m - 1)

DaysBeforeYear(y) ==
    (y - 1) * 365 + ((y - 1) \div 4) - ((y - 1) \div 100) + ((y - 1) \div 400)

\* date.toordinal(): the day number, 0001-01-01 being day 1
Ordinal(y, m, d) == DaysBeforeYear(y) + DaysBeforeMonth(y, m) + d

NoDate == [ok |-> FALSE, ord |-> 0]

Strptime(s) ==
    IF ~(\A i \in 1..4 : IsDigitAt(s, i)) \/ ~IsCharAt(s, 5, "-") THEN NoDate
    ELSE LET ml == MonthLen(s, 6)
             dl == DayLen(s, 6 + ml + 1)
             y  == ToInt(SubSeq(s, 1, 4))
             m  == ToInt(SubSeq(s, 6, 5 + ml))
             d  == ToInt(SubSeq(s, 7 + ml, 6 + ml + dl))
         IN  IF ml = 0 \/ dl = 0 THEN NoDate
             ELSE IF 6 + ml + dl # Len(s) THEN NoDate
             ELSE IF y < 1 \/ d > DaysInMonth(y, m) THEN NoDate
             ELSE [ok |-> TRUE, ord |-> Ordinal(y, m, d)]

\* ------------------------------------------------------------------ numbers
\* float(value): a number is taken as it is; text is stripped and read as
\* digits with at most one decimal place; None and other text are errors.
IsDigits(s) == s # <<>> /\ \A i \in 1..Len(s) : s[i] \in Digits

NoFloat == [ok |-> FALSE, v |-> 0]

FloatOfStr(s) ==
    LET t == Strip(s)
        n == Len(t)
    IN  IF IsDigits(t) THEN [ok |-> TRUE, v |-> ToInt(t) * 10]
        ELSE IF n >= 3 /\ t[n - 1] = "." /\ IsDigits(SubSeq(t, 1, n - 2))
                /\ t[n] \in Digits
             THEN [ok |-> TRUE, v |-> ToInt(SubSeq(t, 1, n - 2)) * 10 + DigitVal(t[n])]
        ELSE NoFloat

Float(value) ==
    CASE value.t = "num" -> [ok |-> TRUE, v |-> value.tenths]
      [] value.t = "str" -> FloatOfStr(value.s)
      [] OTHER -> NoFloat

RECURSIVE Sum(_)
Sum(s) == IF s = <<>> THEN 0 ELSE Head(s) + Sum(Tail(s))

RECURSIVE Gcd(_, _)
Gcd(a, b) == IF b = 0 THEN a ELSE Gcd(b, a % b)

\* a / b as an exact fraction in lowest terms
Div(a, b) == LET g == Gcd(a, b) IN [num |-> a \div g, den |-> b \div g]

RECURSIVE Min(_)
Min(s) ==
    IF Len(s) = 1 THEN s[1]
    ELSE LET r == Min(Tail(s)) IN IF r < Head(s) THEN r ELSE Head(s)

RECURSIVE Max(_)
Max(s) ==
    IF Len(s) = 1 THEN s[1]
    ELSE LET r == Max(Tail(s)) IN IF r > Head(s) THEN r ELSE Head(s)

\* --------------------------------------------------------- calls and results
Return(v) == [kind |-> "return", exc |-> "", val |-> v]

Raise(e) == [kind |-> "raise", exc |-> e, val |-> <<>>]

\* ---------------------------------------------------------------- add_entry
Entry(date, metric, value) == [date |-> date, metric |-> metric, value |-> value]

\* the value add_entry returns or the error it raises
AddEntryResult(date, metric, value) ==
    IF ~Strptime(date).ok THEN Raise("ValueError")
    ELSE IF ~Float(value).ok THEN Raise("ValueError")
    ELSE Return(Entry(date, NormalizeMetric(metric), Float(value).v))

\* add_entry appending before it validates
AddEntryList_AppendFirst(es, date, metric, value) ==
    Append(es, Entry(date, NormalizeMetric(metric), Float(value).v))

\* add_entry replacing an entry of the same date and metric
AddEntryList_Merge(es, date, metric, value) ==
    LET r == AddEntryResult(date, metric, value)
        same(e) == e.date = r.val.date /\ e.metric = r.val.metric
    IN  IF r.kind # "return" THEN es
        ELSE IF \E i \in 1..Len(es) : same(es[i])
             THEN [i \in 1..Len(es) |-> IF same(es[i]) THEN r.val ELSE es[i]]
             ELSE Append(es, r.val)

\* the collection after add_entry
AddEntryList(es, date, metric, value) ==
    LET r == AddEntryResult(date, metric, value)
    IN  IF r.kind = "return" THEN Append(es, r.val) ELSE es

\* ----------------------------------------------------------- moving_average
\* [e for e in entries if e.metric == metric]
RECURSIVE FilterMetric(_, _)
FilterMetric(es, metric) ==
    IF es = <<>> THEN <<>>
    ELSE IF Head(es).metric = metric
         THEN <<Head(es)>> \o FilterMetric(Tail(es), metric)
         ELSE FilterMetric(Tail(es), metric)

\* an insertion that puts e in front of the elements of its own date
RECURSIVE InsertByDate_Unstable(_, _)
InsertByDate_Unstable(s, e) ==
    IF s = <<>> THEN <<e>>
    ELSE IF ~StrLess(Head(s).date, e.date) THEN <<e>> \o s
    ELSE <<Head(s)>> \o InsertByDate_Unstable(Tail(s), e)

\* e goes behind every element whose date is not greater than its own
RECURSIVE InsertByDate(_, _)
InsertByDate(s, e) ==
    IF s = <<>> THEN <<e>>
    ELSE IF StrLess(e.date, Head(s).date) THEN <<e>> \o s
    ELSE <<Head(s)>> \o InsertByDate(Tail(s), e)

\* sorted(..., key=lambda e: e.date): a stable sort on the date string
RECURSIVE SortedByDate(_)
SortedByDate(s) ==
    IF s = <<>> THEN <<>>
    ELSE InsertByDate(SortedByDate(SubSeq(s, 1, Len(s) - 1)), s[Len(s)])

\* results[key] = v
DictSet(results, key, v) ==
    [k \in (DOMAIN results) \cup {key} |-> IF k = key THEN v ELSE results[k]]

\* the window ending at 0-based index i: numbers[i - window + 1 : i + 1]
WindowVals(numbers, window, i) == SubSeq(numbers, i - window + 2, i + 1)

\* the loop body for 0-based index i and the rest of the loop
RECURSIVE AverageLoop(_, _, _, _, _)
AverageLoop(numbers, dates, window, i, results) ==
    IF i >= Len(numbers) THEN results
    ELSE IF i + 1 >= window
         THEN LET window_vals == WindowVals(numbers, window, i)
                  avg == Div(Sum(window_vals), Len(window_vals))
              IN  AverageLoop(numbers, dates, window, i + 1,
                              DictSet(results, dates[i + 1], avg))
         ELSE AverageLoop(numbers, dates, window, i + 1, results)

\* moving_average checking the window only once it has entries to average
MovingAverage_LateCheck(es, metric, window) ==
    LET vals == SortedByDate(FilterMetric(es, NormalizeMetric(metric)))
        numbers == [i \in 1..Len(vals) |-> vals[i].value]
        dates == [i \in 1..Len(vals) |-> vals[i].date]
    IN  IF vals = <<>> THEN Return(<<>>)
        ELSE IF window < 1 THEN Raise("ValueError")
        ELSE Return(AverageLoop(numbers, dates, window, 0, <<>>))

MovingAverage(es, metric, window) ==
    IF window < 1 THEN Raise("ValueError")
    ELSE LET vals == SortedByDate(FilterMetric(es, NormalizeMetric(metric)))
             numbers == [i \in 1..Len(vals) |-> vals[i].value]
             dates == [i \in 1..Len(vals) |-> vals[i].date]
         IN  IF vals = <<>> THEN Return(<<>>)
             ELSE Return(AverageLoop(numbers, dates, window, 0, <<>>))

\* ----------------------------------------------------------- summarize_week
\* timedelta(days=6)
WeekDays == 6

EmptySummary == [count |-> 0, values |-> <<>>]

\* an anchor that falls back on the latest entry when end_date does not parse
EndDate_Lenient(es, end_date) ==
    IF ~end_date.some \/ ~Strptime(end_date.s).ok
    THEN [ok |-> TRUE, ord |-> Max([i \in 1..Len(es) |-> Strptime(es[i].date).ord])]
    ELSE Strptime(end_date.s)

\* an anchor that takes the last entry for the latest
EndDate_Last(es, end_date) ==
    IF ~end_date.some THEN Strptime(es[Len(es)].date) ELSE Strptime(end_date.s)

\* the anchor day, lines 83-86: the latest parsed date of all entries when
\* end_date is None, else the parsed end_date; not ok when a parse fails
EndDate(es, end_date) ==
    IF ~end_date.some
    THEN IF \A i \in 1..Len(es) : Strptime(es[i].date).ok
         THEN [ok |-> TRUE, ord |-> Max([i \in 1..Len(es) |-> Strptime(es[i].date).ord])]
         ELSE NoDate
    ELSE Strptime(end_date.s)

\* a week that leaves out its first day
InWeek_ExclusiveStart(e, metric, start, end) ==
    /\ e.metric = metric
    /\ start < Strptime(e.date).ord
    /\ Strptime(e.date).ord <= end

\* e.metric == metric and start <= strptime(e.date) <= end
InWeek(e, metric, start, end) ==
    /\ e.metric = metric
    /\ start <= Strptime(e.date).ord
    /\ Strptime(e.date).ord <= end

\* [e.value for e in entries if ...]
RECURSIVE Selected(_, _, _, _)
Selected(es, metric, start, end) ==
    IF es = <<>> THEN <<>>
    ELSE IF InWeek(Head(es), metric, start, end)
         THEN <<Head(es).value>> \o Selected(Tail(es), metric, start, end)
         ELSE Selected(Tail(es), metric, start, end)

SummarizeWeek(es, metric, end_date) ==
    IF es = <<>> THEN Return(EmptySummary)
    ELSE LET end == EndDate(es, end_date)
             unparsed == \E i \in 1..Len(es) :
                            /\ es[i].metric = NormalizeMetric(metric)
                            /\ ~Strptime(es[i].date).ok
         IN  IF ~end.ok \/ unparsed THEN Raise("ValueError")
             ELSE LET start == end.ord - WeekDays
                      selected == Selected(es, NormalizeMetric(metric), start, end.ord)
                      count == Len(selected)
                  IN  IF selected = <<>> THEN Return(EmptySummary)
                      ELSE Return([count |-> count, min |-> Min(selected),
                                   max |-> Max(selected),
                                   mean |-> Div(Sum(selected), count),
                                   values |-> selected])

\* --------------------------------------------------------------- export_csv
RECURSIVE Digits10(_)
Digits10(n) ==
    IF n < 10 THEN <<DigitChar(n)>> ELSE Digits10(n \div 10) \o <<DigitChar(n % 10)>>

\* str(value) of a float: the whole part, a point, the decimal digit
ReprFloat(v) == Digits10(v \div 10) \o <<".", DigitChar(v % 10)>>

RECURSIVE DoubleQuotes(_)
DoubleQuotes(s) ==
    IF s = <<>> THEN <<>>
    ELSE IF Head(s) = "\"" THEN <<"\"", "\"">> \o DoubleQuotes(Tail(s))
    ELSE <<Head(s)>> \o DoubleQuotes(Tail(s))

\* the excel dialect, QUOTE_MINIMAL: a field holding the delimiter, the quote
\* character or a line-terminator character is quoted, its quotes doubled
CsvField(s) ==
    IF \E i \in 1..Len(s) : s[i] \in {",", "\"", "\r", "\n"}
    THEN <<"\"">> \o DoubleQuotes(s) \o <<"\"">>
    ELSE s

\* writer.writerow: the fields joined by commas, then "\r\n"
CsvRow(fields) ==
    CsvField(fields[1]) \o <<",">> \o CsvField(fields[2]) \o <<",">>
        \o CsvField(fields[3]) \o <<"\r", "\n">>

\* writer.writeheader()
CsvHeader == <<<<"d", "a", "t", "e">>, <<"m", "e", "t", "r", "i", "c">>,
               <<"v", "a", "l", "u", "e">>>>

RECURSIVE CsvRows(_)
CsvRows(es) ==
    IF es = <<>> THEN <<>>
    ELSE CsvRow(<<Head(es).date, Head(es).metric, ReprFloat(Head(es).value)>>)
            \o CsvRows(Tail(es))

\* the file opened in mode "a"
ExportCsvFile_Append(old, es) == old \o CsvRow(CsvHeader) \o CsvRows(es)

\* the file after export_csv: mode "w" truncates, then header and rows
ExportCsvFile(old, es) == CsvRow(CsvHeader) \o CsvRows(es)

\* ------------------------------------------------------------------ inputs
Feb24 == <<"2", "0", "2", "5", "-", "0", "2", "-", "2", "4">>

Feb30 == <<"2", "0", "2", "5", "-", "0", "2", "-", "3", "0">>

Mar01 == <<"2", "0", "2", "5", "-", "0", "3", "-", "0", "1">>

Mar02 == <<"2", "0", "2", "5", "-", "0", "3", "-", "0", "2">>

Mar03 == <<"2", "0", "2", "5", "-", "0", "3", "-", "0", "3">>

\* 9 March, month and day without zero padding
Mar9 == <<"2", "0", "2", "5", "-", "3", "-", "9">>

Month13 == <<"2", "0", "2", "5", "-", "1", "3", "-", "0", "1">>

\* " W" and "w" name one metric; "B,"" is a metric the csv writer must quote
MetricW == <<" ", "W">>

MetricLowerW == <<"w">>

MetricB == <<"B", ",", "\"">>

Num(tenths) == [t |-> "num", tenths |-> tenths]

Str(s) == [t |-> "str", s |-> s]

AddArgs(date, metric, value) == [date |-> date, metric |-> metric, value |-> value]

\* what callers pass to add_entry: five calls that succeed (two of them for
\* the same date and metric, two of another metric, one of these a week
\* after the rest) and four that must fail
AddInputs ==
    { AddArgs(Feb24, MetricW, Num(700)),
      AddArgs(Feb24, MetricLowerW, Num(715)),
      AddArgs(Mar02, MetricLowerW, Str(<<" ", "7", "1", ".", "5">>)),
      AddArgs(Mar02, MetricB, Num(700)),
      AddArgs(Mar9, MetricB, Str(<<"7", "1", ".", "5">>)),
      AddArgs(Month13, MetricLowerW, Num(700)),
      AddArgs(Feb30, MetricLowerW, Num(700)),
      AddArgs(Feb24, MetricLowerW, Str(<<"a", "b", "c">>)),
      AddArgs(Month13, MetricB, Str(<<"a", "b", "c">>)) }

MetricInputs == {MetricW, MetricB}

WindowInputs == (0 - 1)..MaxWindow

None == [some |-> FALSE, s |-> <<>>]

Some(s) == [some |-> TRUE, s |-> s]

EndDateInputs == {None, Some(Mar01), Some(Mar02), Some(Mar03), Some(Month13)}

\* what the destination holds before the first export
OldFile == <<"o", "l", "d", "\r", "\n">>

\* the entries add_entry makes of AddInputs
StoredEntries ==
    { AddEntryResult(a.date, a.metric, a.value).val :
        a \in {b \in AddInputs : AddEntryResult(b.date, b.metric, b.value).kind = "return"} }

\* the collections of at most MaxLen of them
Collections == UNION {[1..n -> StoredEntries] : n \in 0..MaxLen}

\* ------------------------------------------------------------ state machine
\* entries: the caller's list; created: the entries add_entry has returned,
\* in call order; call, result: the last call and its outcome; file: the
\* text of the export destination.
Init ==
    /\ entries = <<>>
    /\ created = <<>>
    /\ call = [op |-> "none", before |-> <<>>]
    /\ result = Return(<<>>)
    /\ file = OldFile

CallAddEntry ==
    \E a \in AddInputs :
        /\ Len(entries) < MaxEntries
             \/ AddEntryResult(a.date, a.metric, a.value).kind = "raise"
        /\ call' = [op |-> "add_entry", date |-> a.date, metric |-> a.metric,
                    value |-> a.value, before |-> entries]
        /\ result' = AddEntryResult(a.date, a.metric, a.value)
        /\ entries' = AddEntryList(entries, a.date, a.metric, a.value)
        /\ created' = IF result'.kind = "return"
                      THEN Append(created, result'.val) ELSE created
        /\ UNCHANGED file

CallMovingAverage ==
    \E metric \in MetricInputs, window \in WindowInputs :
        /\ call' = [op |-> "moving_average", metric |-> metric, window |-> window,
                    before |-> entries]
        /\ result' = MovingAverage(entries, metric, window)
        /\ UNCHANGED <<entries, created, file>>

CallSummarizeWeek ==
    \E metric \in MetricInputs, end_date \in EndDateInputs :
        /\ call' = [op |-> "summarize_week", metric |-> metric,
                    end_date |-> end_date, before |-> entries]
        /\ result' = SummarizeWeek(entries, metric, end_date)
        /\ UNCHANGED <<entries, created, file>>

CallExportCsv ==
    \E writable \in BOOLEAN :
        /\ call' = [op |-> "export_csv", writable |-> writable, before |-> entries,
                    old |-> file]
        /\ result' = IF writable THEN Return(<<>>) ELSE Raise("OSError")
        /\ file' = IF writable THEN ExportCsvFile(file, entries) ELSE file
        /\ UNCHANGED <<entries, created>>

Next == CallAddEntry \/ CallMovingAverage \/ CallSummarizeWeek \/ CallExportCsv

\* a session: any calls in any order on a list that starts empty
Spec == Init /\ [][Next]_vars

\* the two statistics applied to a collection add_entry has built
InitStats ==
    /\ entries \in Collections
    /\ created = entries
    /\ call = [op |-> "none", before |-> entries]
    /\ result = Return(<<>>)
    /\ file = OldFile

NextStats == CallMovingAverage \/ CallSummarizeWeek

SpecStats == InitStats /\ [][NextStats]_vars

\* =================================================================== claims
\* metric is m trimmed of surrounding whitespace and lower-cased
IsTrimmedLower(m, metric) ==
    \E i \in 1..(Len(metric) + 1) : \E j \in (i - 1)..Len(metric) :
        /\ \A k \in 1..(i - 1) : IsSpace(metric[k])
        /\ \A k \in (j + 1)..Len(metric) : IsSpace(metric[k])
        /\ i <= j => ~IsSpace(metric[i]) /\ ~IsSpace(metric[j])
        /\ Len(m) = j - i + 1
        /\ \A k \in 1..Len(m) :
              /\ m[k] \notin {"B", "W"}
              /\ m[k] = metric[i + k - 1]
                   \/ (metric[i + k - 1] = "W" /\ m[k] = "w")
                   \/ (metric[i + k - 1] = "B" /\ m[k] = "b")

\* the values the inputs denote, in tenths
NumberOf(value) ==
    CASE value = Num(700) -> 700
      [] value = Num(715) -> 715
      [] value = Str(<<" ", "7", "1", ".", "5">>) -> 715
      [] value = Str(<<"7", "1", ".", "5">>) -> 715

\* C1: add_entry with a date that parses and a value that converts appends
\* exactly one Entry at the end, keeps the earlier entries in place, and
\* returns that Entry: the given date, the numeric value, the metric trimmed
\* and lower-cased.
C1_AddEntryAppends ==
    (call.op = "add_entry" /\ Strptime(call.date).ok /\ Float(call.value).ok) =>
        /\ result.kind = "return"
        /\ Len(entries) = Len(call.before) + 1
        /\ \A i \in 1..Len(call.before) : entries[i] = call.before[i]
        /\ entries[Len(entries)] = result.val
        /\ result.val.date = call.date
        /\ result.val.value = NumberOf(call.value)
        /\ IsTrimmedLower(result.val.metric, call.metric)

C1_Witness ==
    /\ call.op = "add_entry"
    /\ result.kind = "return"
    /\ call.before # <<>>
    /\ call.metric = MetricW
    /\ result.val.metric = MetricLowerW

\* C2: add_entry with a date that does not parse (2025-13-01) or a value that
\* is not numeric ("abc") raises ValueError and leaves the collection as it
\* was.
C2_AddEntryRejects ==
    (/\ call.op = "add_entry"
     /\ \/ ~Strptime(call.date).ok
        \/ ~Float(call.value).ok
        \/ call.date = Month13
        \/ call.value = Str(<<"a", "b", "c">>)) =>
        /\ result.kind = "raise"
        /\ result.exc = "ValueError"
        /\ entries = call.before

C2_Witness ==
    /\ call.op = "add_entry"
    /\ call.date = Month13
    /\ result.kind = "raise"
    /\ call.before # <<>>
    /\ entries = call.before

\* C8: the collection is the sequence of the entries the successful add_entry
\* calls created, in call order; moving_average, summarize_week and
\* export_csv leave it as it was.
C8_CollectionIsHistory ==
    /\ entries = created
    /\ call.op \in {"moving_average", "summarize_week", "export_csv"} =>
          entries = call.before

\* two entries of one date and metric and different values, after a query
C8_Witness ==
    /\ Len(entries) = 2
    /\ entries[1].date = entries[2].date
    /\ entries[1].metric = entries[2].metric
    /\ entries[1].value # entries[2].value
    /\ call.op = "moving_average"
    /\ result.kind = "return"

\* YYYY-MM-DD: four digits, two digits, two digits
IsIsoForm(s) ==
    /\ Len(s) = 10
    /\ \A i \in {1, 2, 3, 4, 6, 7, 9, 10} : s[i] \in Digits
    /\ s[5] = "-"
    /\ s[8] = "-"

\* C10: every stored date has the zero-padded form YYYY-MM-DD, and add_entry
\* rejects every date that has not.
C10_DatesZeroPadded ==
    /\ \A i \in 1..Len(entries) : IsIsoForm(entries[i].date)
    /\ (call.op = "add_entry" /\ ~IsIsoForm(call.date)) => result.kind = "raise"

\* csv.reader on the text of a file opened with newline="" (excel dialect):
\* the rows, each a sequence of fields.  A character is inside a quoted field
\* when an odd number of quote characters precedes it.  A row ends at a "\n"
\* outside quotes, the "\r" before it belonging to the line end; of a quoted
\* field the opening and the closing quote are dropped and a doubled quote is
\* one quote.  A bare "\r" outside quotes is the reader's error: no rows.
ReadCsv(text) ==
    LET n == Len(text)
        Quotes(i) == Cardinality({k \in 1..i : text[k] = "\""})
        Outside(i) == Quotes(i) % 2 = 0
        Nth(P, k) == CHOOSE p \in P : Cardinality({q \in P : q <= p}) = k
        Sub(P) == [k \in 1..Cardinality(P) |-> text[Nth(P, k)]]
        Ends == {i \in 1..n : text[i] = "\n" /\ Outside(i)}
        BareCr == \E i \in 1..n :
                     text[i] = "\r" /\ Outside(i) /\ ~(i < n /\ text[i + 1] = "\n")
        nrows == Cardinality(Ends) + (IF n > 0 /\ n \notin Ends THEN 1 ELSE 0)
        RowStart(r) == IF r = 1 THEN 1 ELSE Nth(Ends, r - 1) + 1
        RowStop(r) ==
            IF r > Cardinality(Ends) THEN n
            ELSE LET e == Nth(Ends, r)
                 IN  IF e > RowStart(r) /\ text[e - 1] = "\r" THEN e - 2 ELSE e - 1
        Seps(r) == {i \in RowStart(r)..RowStop(r) : text[i] = "," /\ Outside(i)}
        FieldStart(r, j) == IF j = 1 THEN RowStart(r) ELSE Nth(Seps(r), j - 1) + 1
        FieldStop(r, j) ==
            IF j > Cardinality(Seps(r)) THEN RowStop(r) ELSE Nth(Seps(r), j) - 1
        Field(r, j) ==
            LET c == FieldStart(r, j)
            IN  Sub({k \in c..FieldStop(r, j) :
                        text[k] # "\"" \/ (k > c /\ ~Outside(k))})
        Row(r) ==
            IF RowStart(r) > RowStop(r) THEN <<>>
            ELSE [j \in 1..(Cardinality(Seps(r)) + 1) |-> Field(r, j)]
    IN  IF BareCr THEN <<>> ELSE [r \in 1..nrows |-> Row(r)]

\* C7: after a successful export_csv the file is the header row
\* date,metric,value and one row per entry in collection order, whatever it
\* held before; reading the rows back gives the entries' (date, metric,
\* value) triples in order.
C7_ExportRoundTrip ==
    (call.op = "export_csv" /\ result.kind = "return") =>
        LET rows == ReadCsv(file)
        IN  /\ Len(rows) = Len(entries) + 1
            /\ rows[1] = CsvHeader
            /\ \A i \in 1..Len(entries) :
                  /\ Len(rows[i + 1]) = 3
                  /\ rows[i + 1][1] = entries[i].date
                  /\ rows[i + 1][2] = entries[i].metric
                  /\ FloatOfStr(rows[i + 1][3]) = [ok |-> TRUE, v |-> entries[i].value]

\* a second export over an earlier one, of two entries in insertion order
\* that is not date order, one with a metric that needs quoting
C7_Witness ==
    /\ call.op = "export_csv"
    /\ result.kind = "return"
    /\ call.old # OldFile
    /\ call.old # file
    /\ Len(entries) = 2
    /\ StrLess(entries[2].date, entries[1].date)
    /\ \E i \in 1..2 : entries[i].metric = <<"b", ",", "\"">>

\* the day of the year 2025 a date string names
DayOf(date) ==
    CASE date = Feb24 -> 55 [] date = Mar01 -> 60 [] date = Mar02 -> 61
      [] date = Mar03 -> 62 [] date = Mar9 -> 68

\* the indices of the entries of the metric the call names
Matching == {j \in 1..Len(entries) : IsTrimmedLower(entries[j].metric, call.metric)}

\* the place of entry j among them once ordered by date string, entries of
\* one date in collection order
Rank(j) ==
    Cardinality({k \in Matching :
                    \/ StrLess(entries[k].date, entries[j].date)
                    \/ entries[k].date = entries[j].date /\ k <= j})

RECURSIVE SumOver(_)
SumOver(S) ==
    IF S = {} THEN 0
    ELSE LET j == CHOOSE k \in S : TRUE IN entries[j].value + SumOver(S \ {j})

\* C3: for window >= 1 moving_average returns a mapping whose keys are the
\* dates at the places window, window + 1, ... of the matching entries in
\* stable date-string order, and whose value for a date is the mean of the
\* window values ending at the last place of that date.
C3_MovingAverage ==
    (call.op = "moving_average" /\ call.window >= 1) =>
        LET w == call.window
            Eligible == {j \in Matching : Rank(j) >= w}
            Last(d) == CHOOSE j \in Eligible :
                          /\ entries[j].date = d
                          /\ \A k \in Eligible : entries[k].date = d => Rank(k) <= Rank(j)
            Window(j) == {k \in Matching : Rank(j) - w < Rank(k) /\ Rank(k) <= Rank(j)}
        IN  /\ result.kind = "return"
            /\ DOMAIN result.val = {entries[j].date : j \in Eligible}
            /\ \A d \in DOMAIN result.val :
                  /\ result.val[d].den > 0
                  /\ result.val[d].num * w = SumOver(Window(Last(d))) * result.val[d].den

\* a window of at least 2 over matching entries that are not in date order
\* and two of which share a date: fewer results than matching entries
C3_Witness ==
    /\ call.op = "moving_average"
    /\ call.window >= 2
    /\ result.kind = "return"
    /\ DOMAIN result.val # {}
    /\ \E j \in Matching : \E k \in Matching :
          j < k /\ StrLess(entries[k].date, entries[j].date)
    /\ \E j \in Matching : \E k \in Matching :
          /\ j # k
          /\ entries[j].date = entries[k].date
          /\ entries[j].value # entries[k].value

\* C4: moving_average with window 0 or negative raises ValueError, whatever
\* the collection holds.
C4_WindowRejected ==
    (call.op = "moving_average" /\ call.window < 1) =>
        /\ result.kind = "raise"
        /\ result.exc = "ValueError"

C4_Witness ==
    /\ call.op = "moving_average"
    /\ call.window = 0
    /\ result.kind = "raise"
    /\ entries # <<>>
    /\ Matching = {}

\* the indices summarize_week selects for the week ending at day end
InRange(end) ==
    {j \in Matching : end - 6 <= DayOf(entries[j].date) /\ DayOf(entries[j].date) <= end}

C6_BadEndDateAlwaysRaises ==
    (call.op = "summarize_week" /\ call.end_date.some /\ ~Strptime(call.end_date.s).ok) =>
        /\ result.kind = "raise"
        /\ result.exc = "ValueError"

\* C6 amended: summarize_week with an end_date that does not parse raises
\* ValueError when the collection is not empty; on the empty collection it
\* returns {count: 0, values: []} without looking at end_date.
C6_BadEndDateRaisesUnlessEmpty ==
    (call.op = "summarize_week" /\ call.end_date.some /\ ~Strptime(call.end_date.s).ok) =>
        IF entries = <<>>
        THEN result = Return(EmptySummary)
        ELSE result.kind = "raise" /\ result.exc = "ValueError"

C6_Witness ==
    /\ call.op = "summarize_week"
    /\ call.end_date = Some(Month13)
    /\ entries # <<>>
    /\ result.kind = "raise"

\* the latest day among all entries
LatestDay ==
    CHOOSE d \in {DayOf(entries[j].date) : j \in 1..Len(entries)} :
        \A k \in 1..Len(entries) : DayOf(entries[k].date) <= d

\* C9: on a non-empty collection summarize_week without end_date returns what
\* it returns with end_date set to the latest date of all entries, whatever
\* their metric; so {count: 0, values: []} when every entry of the metric is
\* more than 6 days older than that.
C9_DefaultEndDate ==
    (call.op = "summarize_week" /\ ~call.end_date.some /\ entries # <<>>) =>
        /\ \A j \in 1..Len(entries) :
              DayOf(entries[j].date) = LatestDay =>
                 result = SummarizeWeek(entries, call.metric, Some(entries[j].date))
        /\ (\A j \in Matching : DayOf(entries[j].date) < LatestDay - 6) =>
              result = Return(EmptySummary)

\* entries of the metric, the latest entry being one of another metric and
\* more than six days after them, and not the last of the collection
C9_Witness ==
    /\ call.op = "summarize_week"
    /\ ~call.end_date.some
    /\ Matching # {}
    /\ \A j \in Matching : DayOf(entries[j].date) < LatestDay - 6
    /\ DayOf(entries[Len(entries)].date) < LatestDay
    /\ result = Return(EmptySummary)

====
